---- MODULE Spec2Model ----
(***************************************************************************)
(* Model of UniversalServer (src/MC_Server_Main.py), the process           *)
(* supervisor of the Minecraft server panel, and of the threads the GUI    *)
(* starts to drive it.  The supervisor's fields, the operating-system      *)
(* processes it spawned, the files of the server directory and the         *)
(* position of every caller thread are the state; each action is one       *)
(* stretch of a method between two points where another thread can run.    *)
(***************************************************************************)
EXTENDS Integers, Sequences, FiniteSets, TLC

\* ------------------------------------------------------------------ bounds
\* total number of API calls issued in one behaviour
MaxCalls == 2
\* largest value of the wall clock, in seconds
MaxClock == 2
\* number of calls that can be in flight at once
NThreads == 2
\* backups the operator starts
MaxBackups == 2

\* ------------------------------------------------------- program constants
\* for i in range(30): one liveness poll per second
StopPolls == 30

\* slots of the caller threads in flight (the GUI runs every call in a
\* threading.Thread of its own); a new call takes the lowest free slot
Threads == 1..NThreads
BackupThreads == 1..MaxBackups
\* process identifiers: every call spawns at most one process
Pids == 1..MaxCalls
\* Python None for self.process and self.start_time
NoProcess == 0
NoTime == 0 - 1

\* --------------------------------------------------------------- strings
NL == "\n"
StopText == <<"s", "t", "o", "p">>
EulaTrue == <<"e", "u", "l", "a", "=", "t", "r", "u", "e">>
EulaFalse == <<"e", "u", "l", "a", "=", "f", "a", "l", "s", "e">>
EulaUpper == <<"E", "U", "L", "A", "=", "T", "R", "U", "E">>
\* accept_eula writing a marker that does not accept
EulaTemplate_NotAffirmative == <<"#", NL>> \o EulaFalse
\* the text accept_eula writes: comment lines, then eula=true
EulaTemplate == <<"#", NL>> \o EulaTrue
\* texts a caller passes to send_command
CommandTexts == {<< >>, <<"l">>, <<"s", NL>>, <<NL>>}

\* str.lower(): every capital letter has its small letter, the rest stays
Capitals == <<"A", "B", "C", "D", "E", "F", "G", "H", "I", "J", "K", "L", "M", "N", "O", "P", "Q", "R", "S", "T", "U", "V", "W", "X", "Y", "Z">>
Smalls == <<"a", "b", "c", "d", "e", "f", "g", "h", "i", "j", "k", "l", "m", "n", "o", "p", "q", "r", "s", "t", "u", "v", "w", "x", "y", "z">>
ToLower == [c \in {Capitals[i] : i \in 1..Len(Capitals)} |->
               Smalls[CHOOSE i \in 1..Len(Capitals) : Capitals[i] = c]]
LowerChar(c) == IF c \in DOMAIN ToLower THEN ToLower[c] ELSE c
Lower(s) == [k \in 1..Len(s) |-> LowerChar(s[k])]
\* Python's  sub in s
Contains(s, sub) ==
    \E k \in 0..(Len(s) - Len(sub)) : SubSeq(s, k + 1, k + Len(sub)) = sub
\* Python's  s.upper()  and  s.capitalize()  on the letters a file name may hold
Upper(s) ==
    LET at(c) == {i \in 1..Len(Smalls) : Smalls[i] = c}
    IN  [k \in 1..Len(s) |->
            IF at(s[k]) = {} THEN s[k] ELSE Capitals[CHOOSE i \in at(s[k]) : TRUE]]
Capitalize(s) == IF s = << >> THEN s ELSE <<Upper(s)[1]>> \o Tail(s)
\* Python's  s.endswith(c)  for a one-character c
EndsWith(s, c) == Len(s) > 0 /\ s[Len(s)] = c
\* Python's  s.endswith(suffix)
HasSuffix(s, suffix) ==
    Len(s) >= Len(suffix) /\ SubSeq(s, Len(s) - Len(suffix) + 1, Len(s)) = suffix
\* the characters of the file names of the model
Chars(name) ==
    CASE name = "server.jar" -> <<"s", "e", "r", "v", "e", "r", ".", "j", "a", "r">>
      [] name = "paper-1.21.4.jar" -> <<"p", "a", "p", "e", "r", "-", "1", ".", "2", "1", ".", "4", ".", "j", "a", "r">>
      [] name = "forge-installer.jar" -> <<"f", "o", "r", "g", "e", "-", "i", "n", "s", "t", "a", "l", "l", "e", "r", ".", "j", "a", "r">>
      [] name = "eula.txt" -> <<"e", "u", "l", "a", ".", "t", "x", "t">>
      [] name = "server.properties" -> <<"s", "e", "r", "v", "e", "r", ".", "p", "r", "o", "p", "e", "r", "t", "i", "e", "s">>

VARIABLES
    server_dir,   \* self.server_dir
    java_opts,    \* self.java_opts
    core_type,    \* self.core_type
    minecraft_version, \* self.minecraft_version
    mirror_site,  \* self.mirror_site
    status,       \* the dict the last get_status() returned
    boot,         \* "down" | "fresh" | "edited": no instance, one just
                  \* constructed, one whose settings were saved since
    jar_path,     \* the argument of detect_core_type: [name, exists, content]
    url,          \* the last get_download_url call: [core, version, mirror, result]
    process,      \* self.process: NoProcess or the pid of the Popen handle
    is_running,   \* self.is_running
    start_time,   \* self.start_time: NoTime or a clock value
    server_jar,   \* self.server_jar: a file name, "" when undetected
    config_file,  \* the record save_config wrote last
    proc,         \* pid -> "unborn" | "alive" | "dying" | "exited" (the OS's view)
    ops,          \* pid -> the writes and signals the supervisor issued to it
    files,        \* path -> content, for every regular file of the directory
    javaEnv,      \* "path" | "fallback" | "none": where a java runtime is found
    is_windows,   \* self.is_windows
    now,          \* the wall clock, datetime.now()
    th,           \* thread -> [pc, op, force, i, cmd, ret]
    calls,        \* API calls issued so far
    readers,      \* reader loops (read_server_output) that have not ended
    gs,           \* the get_status call in progress: its position and the
                  \* values it has read so far
    rd,           \* pid -> the reader thread started after that process was
                  \* spawned: [pc, p, got]
    steady,       \* a start returned success and since then no stop was
                  \* issued and no process exited
    backup_units, \* the directories of backup_dir: name -> [at, dirs, files]
    bk,           \* backup thread -> [pc, name, at, d, todo]
    listbox       \* the names the backup window listed last

vars == <<process, is_running, start_time, server_jar, config_file, proc, ops,
          files, javaEnv, is_windows, now, th, calls, readers, steady,
          server_dir, java_opts, core_type, minecraft_version, mirror_site,
          status, boot, jar_path, url, backup_units, bk, listbox, rd, gs>>

supervisor == <<process, is_running, start_time>>
env == <<server_dir, server_jar, javaEnv, is_windows>>
\* self.java_opts, self.core_type, self.minecraft_version, self.mirror_site
settings == <<java_opts, core_type, minecraft_version, mirror_site>>
\* the state no method of the running supervisor assigns
backups == <<backup_units, bk, listbox>>
outside == <<settings, status, boot, jar_path, url, backups>>

\* ------------------------------------------------------------ file system
\* the directory the supervisor is constructed on
RootDir == <<"srv">>
\* pathlib's  dir / name : joining the empty name yields the directory itself
Join(dir, name) == IF name = "" THEN dir ELSE Append(dir, name)
EulaPath == Join(server_dir, "eula.txt")
PropsPath == Join(server_dir, "server.properties")
\* self.backup_dir, fixed by __init__ before load_config runs
backup_dir == Join(RootDir, "backups")
\* self.config_file, fixed by __init__ before load_config runs
config_file_path == Join(RootDir, "server_launcher.json")
\* the directories __init__ creates (mkdir(exist_ok=True))
Dirs == {RootDir, backup_dir}

\* Path.exists(): a directory or a regular file
Exists(p) == p \in Dirs \/ p \in DOMAIN files
IsFile(p) == p \in DOMAIN files
\* self.server_dir / self.server_jar
JarPath == Join(server_dir, server_jar)

\* Popen.poll() is None: the process has not terminated
PollIsNone(p) == proc[p] \in {"alive", "dying"}
\* the liveness test without its poll()
LiveHandle_NoPoll == process # NoProcess
\* self.process and self.process.poll() is None
LiveHandle == process # NoProcess /\ PollIsNone(process)

Idle == [pc |-> "idle", op |-> "none", force |-> FALSE, i |-> 0,
         cmd |-> << >>, ret |-> "none"]
\* thread t finishes its call with the outcome ret
Return(t, ret) ==
    [th EXCEPT ![t] = [pc |-> "idle", op |-> th[t].op, force |-> FALSE,
                       i |-> 0, cmd |-> << >>, ret |-> ret]]
Goto(t, pc) == [th EXCEPT ![t].pc = pc]
InStop(t) == th[t].pc \in {"p_begin", "p_noop", "p_send", "p_wait", "p_term",
                           "p_grace", "r_begin", "r_sleep"}

\* ------------------------------------------------------ ServerCoreManager
\* the if/elif chain of detect_core_type: the tag returned for the first
\* line one of whose keywords occurs in the lower-cased file name
FilenameRules ==
    << [tag |-> "purpur", keys |-> {<<"p", "u", "r", "p", "u", "r">>}],
       [tag |-> "paper", keys |-> {<<"p", "a", "p", "e", "r">>}],
       [tag |-> "spigot", keys |-> {<<"s", "p", "i", "g", "o", "t">>}],
       [tag |-> "craftbukkit", keys |-> {<<"c", "r", "a", "f", "t", "b", "u", "k", "k", "i", "t">>}],
       [tag |-> "fabric", keys |-> {<<"f", "a", "b", "r", "i", "c">>}],
       [tag |-> "forge", keys |-> {<<"f", "o", "r", "g", "e">>,
                                   <<"n", "e", "o", "f", "o", "r", "g", "e">>}],
       [tag |-> "mohist", keys |-> {<<"m", "o", "h", "i", "s", "t">>}],
       [tag |-> "catserver", keys |-> {<<"c", "a", "t", "s", "e", "r", "v", "e", "r">>}] >>
K_server == <<"s", "e", "r", "v", "e", "r">>
K_vanilla == <<"v", "a", "n", "i", "l", "l", "a">>
K_installer == <<"i", "n", "s", "t", "a", "l", "l", "e", "r">>
DotJar == <<".", "j", "a", "r">>

\* a jar is a zip archive: the magic number, then the names of its entries
ZipMagic == "PK"
MainClass == "net/minecraft/server/Main.class"
\* zipfile.ZipFile(jar_path) opens the file without raising
IsZip(content) == Len(content) > 0 /\ content[1] = ZipMagic
\* [x.filename for x in zf.filelist]
ZipEntries(content) == {content[i] : i \in 2..Len(content)}

\* the body of the try block: opening a file that is no archive raises
Inspect(content) ==
    IF ~IsZip(content) THEN "raised"
    ELSE IF MainClass \in ZipEntries(content) THEN "vanilla"
    ELSE "none"

\* the chain of detect_core_type below its existence test, for a file named
\* name that holds content
Classify(name, content) ==
    LET jar_name == Lower(name)
        hit == {i \in 1..Len(FilenameRules) :
                   \E key \in FilenameRules[i].keys : Contains(jar_name, key)}
    IN  IF hit # {}
        THEN FilenameRules[CHOOSE i \in hit : \A j \in hit : i <= j].tag
        ELSE IF /\ Contains(jar_name, K_server)
                /\ ~Contains(jar_name, K_vanilla)
                \* the bare except passes when the inspection raised
                /\ Inspect(content) = "vanilla"
        THEN "vanilla"
        ELSE "unknown"

\* the classification by name alone, the file not looked for
detect_core_type_NameOnly(exists, name, content) == Classify(name, content)
\* ServerCoreManager.detect_core_type(jar_path), for a path whose file name
\* is name, that exists or not, and whose file holds content
detect_core_type(exists, name, content) ==
    IF ~exists THEN "unknown" ELSE Classify(name, content)

\* MINECRAFT_VERSIONS, in the order of the list
MINECRAFT_VERSIONS ==
    << <<"1", ".", "2", "1", ".", "4">>,
       <<"1", ".", "2", "1", ".", "3">>,
       <<"1", ".", "2", "1", ".", "2">>,
       <<"1", ".", "2", "1", ".", "1">>,
       <<"1", ".", "2", "1">>,
       <<"1", ".", "2", "0", ".", "6">>,
       <<"1", ".", "2", "0", ".", "5">>,
       <<"1", ".", "2", "0", ".", "4">>,
       <<"1", ".", "2", "0", ".", "3">>,
       <<"1", ".", "2", "0", ".", "2">>,
       <<"1", ".", "2", "0", ".", "1">>,
       <<"1", ".", "2", "0">>,
       <<"1", ".", "1", "9", ".", "4">>,
       <<"1", ".", "1", "9", ".", "3">>,
       <<"1", ".", "1", "9", ".", "2">>,
       <<"1", ".", "1", "9", ".", "1">>,
       <<"1", ".", "1", "9">>,
       <<"1", ".", "1", "8", ".", "2">>,
       <<"1", ".", "1", "8", ".", "1">>,
       <<"1", ".", "1", "8">>,
       <<"1", ".", "1", "7", ".", "1">>,
       <<"1", ".", "1", "7">>,
       <<"1", ".", "1", "6", ".", "5">>,
       <<"1", ".", "1", "6", ".", "4">>,
       <<"1", ".", "1", "6", ".", "3">>,
       <<"1", ".", "1", "6", ".", "2">>,
       <<"1", ".", "1", "6", ".", "1">>,
       <<"1", ".", "1", "5", ".", "2">>,
       <<"1", ".", "1", "5", ".", "1">>,
       <<"1", ".", "1", "5">>,
       <<"1", ".", "1", "4", ".", "4">>,
       <<"1", ".", "1", "4", ".", "3">>,
       <<"1", ".", "1", "4", ".", "2">>,
       <<"1", ".", "1", "4", ".", "1">>,
       <<"1", ".", "1", "3", ".", "2">>,
       <<"1", ".", "1", "3", ".", "1">>,
       <<"1", ".", "1", "2", ".", "2">>,
       <<"1", ".", "1", "2", ".", "1">>,
       <<"1", ".", "1", "1", ".", "2">>,
       <<"1", ".", "1", "0", ".", "2">>,
       <<"1", ".", "9", ".", "4">>,
       <<"1", ".", "8", ".", "9">>,
       <<"1", ".", "7", ".", "1", "0">> >>

\* the loop of detect_server_core over MINECRAFT_VERSIONS: the first version
\* that occurs in the lower-cased name, or the value the field had
ExtractVersion(name, before) ==
    LET jar_name == Lower(name)
        hit == {i \in 1..Len(MINECRAFT_VERSIONS) :
                   Contains(jar_name, MINECRAFT_VERSIONS[i])}
    IN  IF hit = {} THEN before
        ELSE MINECRAFT_VERSIONS[CHOOSE i \in hit : \A j \in hit : i <= j]

\* ------------------------------------------------------------ ProfileStore
\* the launch options __init__ assigns
DefaultOpts == "-Xmx2048M -Xms2048M"
\* the text of a JSON document: one token per brace or bracket and one per
\* "key": value pair
Tok(key, value) == [k |-> key, v |-> value]
OpenBrace == Tok("{", "")
CloseBrace == Tok("}", "")
Punctuation == {"{", "}", "[", "]"}
\* a directory name is the sequence of its components; str(path) joins them
StrOfPath(p) == p
NonEmpty(c) == c # ""
\* Path(text): empty components (a doubled or a trailing separator) vanish
PathOfStr(text) == SelectSeq(text, NonEmpty)
\* JSON null, the one value of the model that is not a string
JsonNull == <<"null">>

\* the dict save_config() builds from the fields when called without one
ConfigOf(p, stamp) ==
    << Tok("server_dir", StrOfPath(p.server_dir)),
       Tok("server_jar", p.server_jar),
       Tok("java_opts", p.java_opts),
       Tok("core_type", p.core_type),
       Tok("minecraft_version", p.minecraft_version),
       Tok("mirror_site", p.mirror_site),
       Tok("last_modified", stamp) >>

\* the six fields of the profile
Profile ==
    [server_dir |-> server_dir, server_jar |-> server_jar,
     java_opts |-> java_opts, core_type |-> core_type,
     minecraft_version |-> minecraft_version, mirror_site |-> mirror_site]

\* the dict of save_config() without its mirror_site pair
SavedConfig_NoMirror ==
    SubSeq(ConfigOf(Profile, now), 1, 5) \o <<Tok("last_modified", now)>>
SavedConfig == ConfigOf(Profile, now)

\* the fields as __init__ assigns them, with the defaults load_config gives
\* the three it always assigns
Fresh ==
    [server_dir |-> RootDir, server_jar |-> "", java_opts |-> DefaultOpts,
     core_type |-> "unknown", minecraft_version |-> << >>,
     mirror_site |-> "mslmc"]

\* default_config of load_config, built from the fields before any is loaded
default_config ==
    << Tok("server_dir", StrOfPath(Fresh.server_dir)),
       Tok("server_jar", Fresh.server_jar),
       Tok("java_opts", Fresh.java_opts),
       Tok("core_type", "unknown"),
       Tok("minecraft_version", << >>),
       Tok("auto_backup", TRUE),
       Tok("backup_interval", 3600),
       Tok("max_backups", 10),
       Tok("mirror_site", "mslmc") >>

\* json.dump(config, f): the braces around the pairs, in the dict's order
JsonDump(config) == <<OpenBrace>> \o config \o <<CloseBrace>>

\* server_launcher.json holding text, and the directory without the file
FileOf(text) == [exists |-> TRUE, text |-> text]
NoFile == [exists |-> FALSE, text |-> << >>]

\* json.load(f) returns: the text is one complete document
IsJson(text) ==
    /\ Len(text) >= 2
    /\ \/ text[1].k = "{" /\ text[Len(text)].k = "}"
       \/ text[1].k = "[" /\ text[Len(text)].k = "]"
    /\ \A i \in 2..(Len(text) - 1) : text[i].k \notin Punctuation

\* config.get(key, default) on the pairs of the document
Get(text, key, default) ==
    LET at == {i \in 1..Len(text) : text[i].k = key}
    IN  IF at = {} THEN default
        ELSE text[CHOOSE i \in at : \A j \in at : j <= i].v

\* the try block assigning server_dir after the other fields
LoadOrder_DirLast ==
    <<"server_jar", "java_opts", "core_type", "minecraft_version",
      "mirror_site", "server_dir">>
\* the assignments of load_config's try block, in their order
LoadOrder ==
    <<"server_dir", "server_jar", "java_opts", "core_type",
      "minecraft_version", "mirror_site">>

\* how many assignments of the try block complete: none when json.load
\* raises or the document is no object (config.get raises); those before
\* server_dir when its value is no string (Path(None) raises); else all
Assigned(text) ==
    IF ~IsJson(text) \/ text[1].k # "{" THEN 0
    ELSE IF Get(text, "server_dir", << >>) = JsonNull
    THEN (CHOOSE i \in 1..Len(LoadOrder) : LoadOrder[i] = "server_dir") - 1
    ELSE Len(LoadOrder)

\* load_config on the fields p that __init__ assigned: the fields when it
\* returns.  The except branch and the branch of the missing file assign
\* core_type, minecraft_version and mirror_site their defaults.
load_config(f, p) ==
    IF ~f.exists
    THEN [p EXCEPT !.core_type = "unknown", !.minecraft_version = << >>,
                   !.mirror_site = "mslmc"]
    ELSE LET n == Assigned(f.text)
             done(key) == \E i \in 1..n : LoadOrder[i] = key
             raised == n < Len(LoadOrder)
         IN  [server_dir |->
                 IF done("server_dir")
                 THEN PathOfStr(Get(f.text, "server_dir", StrOfPath(p.server_dir)))
                 ELSE p.server_dir,
              server_jar |->
                 IF done("server_jar")
                 THEN Get(f.text, "server_jar", p.server_jar) ELSE p.server_jar,
              java_opts |->
                 IF done("java_opts")
                 THEN Get(f.text, "java_opts", p.java_opts) ELSE p.java_opts,
              core_type |->
                 IF raised THEN "unknown" ELSE Get(f.text, "core_type", "unknown"),
              minecraft_version |->
                 IF raised THEN << >> ELSE Get(f.text, "minecraft_version", << >>),
              mirror_site |->
                 IF raised THEN "mslmc" ELSE Get(f.text, "mirror_site", "mslmc")]

\* save_config(config): what server_launcher.json holds afterwards.  open()
\* may fail and leave the file alone; once open(..., 'w') has emptied the
\* file, json.dump writes the text, all of it or, when the write raises or
\* the program dies, its first n tokens.
save_config(config, outcome, n) ==
    CASE outcome = "written" -> FileOf(JsonDump(config))
      [] outcome = "truncated" -> FileOf(SubSeq(JsonDump(config), 1, n))
      [] OTHER -> config_file

\* ------------------------------------------------------------------ Init
\* no get_status call in progress
NoSnapshot == [pc |-> "idle", running |-> FALSE, pid |-> NoProcess, uptime |-> NoTime]

\* a reader thread that was not started: where it is, the process whose
\* stdout it is reading, what its last readline gave
NoReader == [pc |-> "none", p |-> NoProcess, got |-> "none"]
\* the fields as __init__ assigns them before load_config runs
InitFields ==
    /\ server_dir = RootDir
    /\ java_opts = DefaultOpts
    /\ core_type = "unknown"
    /\ minecraft_version = << >>
    /\ mirror_site = "mslmc"

\* the supervisor's own fields, the processes and the callers before any call
InitSupervisor ==
    /\ process = NoProcess
    /\ is_running = FALSE
    /\ start_time = NoTime
    /\ proc = [p \in Pids |-> "unborn"]
    /\ ops = [p \in Pids |-> << >>]
    /\ th = [t \in Threads |-> Idle]
    /\ calls = 0
    /\ readers = 0
    /\ rd = [p \in Pids |-> NoReader]
    /\ gs = NoSnapshot
    /\ steady = FALSE
    \* update_status runs once when the window is built
    /\ status = [running |-> FALSE, pid |-> NoProcess, uptime |-> NoTime]

\* a backup thread that was not started
NoBackup == [pc |-> "idle", name |-> << >>, at |-> NoTime, d |-> 0, todo |-> {}]
\* no artifact was classified and no download address asked for
NoJar == [name |-> << >>, exists |-> FALSE, content |-> << >>]
\* Python's None, as get_download_url returns it
None == << >>
NoUrl == [core |-> "", version |-> "", mirror |-> "", result |-> None]
InitTools ==
    /\ jar_path = NoJar
    /\ url = NoUrl
    /\ backup_units = << >>
    /\ bk = [b \in BackupThreads |-> NoBackup]
    /\ listbox = << >>

\* the supervisor constructed on a directory without a record: load_config
\* has written default_config, detect_server_core has looked for a jar
Init ==
    /\ InitFields
    /\ InitSupervisor
    /\ InitTools
    /\ boot = "fresh"
    /\ \E jar \in {"", "server.jar"}, onDisk \in BOOLEAN,
          eula \in {<< >>, EulaFalse, EulaUpper} :
          \* detect_server_core adopts a jar found in the directory
          /\ onDisk => jar = "server.jar"
          /\ server_jar = jar
          \* eula = << >> stands for a directory without eula.txt
          /\ files = [p \in ((IF onDisk THEN {Join(server_dir, "server.jar")} ELSE {})
                             \cup (IF eula # << >> THEN {EulaPath} ELSE {}))
                        |-> IF p = EulaPath THEN eula ELSE << >>]
          \* load_config wrote the record before detect_server_core ran
          /\ config_file = FileOf(JsonDump(default_config))
    /\ javaEnv \in {"path", "fallback", "none"}
    /\ is_windows \in BOOLEAN
    /\ now = 0

\* ------------------------------------------------------------ the callers
\* A caller thread issues one call of the supervisor's API: start_server,
\* stop_server(force), send_command(text), or the GUI's restart.
Invoke(t) ==
    /\ th[t].pc = "idle"
    /\ \A u \in Threads : u < t => th[u].pc # "idle"
    /\ calls < MaxCalls
    /\ calls' = calls + 1
    /\ \E op \in {"start", "stop", "restart", "send"}, f \in BOOLEAN,
          text \in CommandTexts :
          /\ f => op = "stop"
          /\ text # << >> => op = "send"
          /\ th' = [th EXCEPT ![t] =
                      [pc |-> CASE op = "start" -> "s_check"
                                [] op = "stop" -> "p_begin"
                                [] op = "restart" -> "r_begin"
                                [] OTHER -> "c_send",
                       op |-> op, force |-> f, i |-> 0, cmd |-> text,
                       ret |-> "none"]]
          /\ steady' = IF op \in {"stop", "restart"} THEN FALSE ELSE steady
    /\ UNCHANGED <<supervisor, env, outside, config_file, proc, ops, files, now,
                   readers, rd, gs>>

\* ------------------------------------------------------------ start_server
\* subprocess.run(["java", "-version"]) with the find_java fallback, then the
\* jar_path.exists() check
StartCheck(t) ==
    /\ th[t].pc = "s_check"
    /\ th' = IF javaEnv = "none" THEN Return(t, "start_no_java")
             ELSE IF ~Exists(JarPath) THEN Return(t, "start_no_jar")
             ELSE Goto(t, "s_eula")
    /\ UNCHANGED <<supervisor, env, outside, config_file, proc, ops, files, now, calls, steady,
                   readers, rd, gs>>

\* check_eula: the file exists and its lower-cased content holds eula=true
check_eula == IsFile(EulaPath) /\ Contains(Lower(files[EulaPath]), EulaTrue)

\* f with path p (re)written to hold content c
WriteFile(f, p, c) == [q \in DOMAIN f \cup {p} |-> IF q = p THEN c ELSE f[q]]

\* the outcomes of open(path, 'w') followed by write(content)
WriteOutcomes == {"written", "unwritable", "truncated"}
TryWrite(f, p, c, outcome) ==
    CASE outcome = "written" -> WriteFile(f, p, c)
      [] outcome = "truncated" -> WriteFile(f, p, << >>)
      [] OTHER -> f

\* check_eula; when the marker is not affirmative, accept_eula writes it and
\* start_server returns False if that write fails
StartEula(t) ==
    /\ th[t].pc = "s_eula"
    /\ IF check_eula
       THEN th' = Goto(t, "s_props") /\ UNCHANGED files
       ELSE \E outcome \in WriteOutcomes :
               /\ files' = TryWrite(files, EulaPath, EulaTemplate, outcome)
               /\ th' = IF outcome = "written" THEN Goto(t, "s_props")
                        ELSE Return(t, "start_eula_failed")
    /\ UNCHANGED <<supervisor, env, outside, config_file, proc, ops, now, calls, steady,
                   readers, rd, gs>>

\* the content create_default_properties writes (its first line)
DefaultProps == <<"#">>

\* create_default_properties when server.properties is missing: its open()
\* is outside any try block, so a failure leaves start_server as an exception
StartProps(t) ==
    /\ th[t].pc = "s_props"
    /\ IF Exists(PropsPath)
       THEN th' = Goto(t, "s_spawn") /\ UNCHANGED files
       ELSE \E outcome \in WriteOutcomes :
               /\ files' = TryWrite(files, PropsPath, DefaultProps, outcome)
               /\ th' = IF outcome = "written" THEN Goto(t, "s_spawn")
                        ELSE Return(t, "start_raised_props")
    /\ UNCHANGED <<supervisor, env, outside, config_file, proc, ops, now, calls, steady,
                   readers, rd, gs>>

\* the pid the next Popen gets
NewPid == CHOOSE p \in Pids : proc[p] = "unborn" /\ \A q \in Pids : q < p => proc[q] # "unborn"

\* subprocess.Popen(cmd, ...) with cmd[0] = "java": it raises when java is not
\* on the PATH (also when find_java located one), or on an OS error
StartSpawn(t) ==
    /\ th[t].pc = "s_spawn"
    /\ \E spawned \in BOOLEAN :
          /\ javaEnv # "path" => ~spawned
          /\ IF spawned
             THEN /\ proc' = [proc EXCEPT ![NewPid] = "alive"]
                  /\ process' = NewPid
                  /\ is_running' = TRUE
                  /\ start_time' = now
                  \* self.save_config()
                  /\ config_file' = FileOf(JsonDump(SavedConfig))
                  /\ th' = Return(t, "start_ok")
                  \* the caller goes on to read_server_output()
                  /\ readers' = readers + 1
                  /\ rd' = [rd EXCEPT ![NewPid].pc = "begin"]
                  /\ steady' = (steady \/ \A u \in Threads \ {t} : ~InStop(u))
             ELSE /\ is_running' = FALSE
                  /\ th' = Return(t, "start_spawn_failed")
                  /\ UNCHANGED <<process, start_time, config_file, proc,
                                 steady, readers, rd>>
    /\ UNCHANGED <<env, outside, ops, files, now, calls, gs>>

\* ------------------------------------------------------------ send_command
\* a newline appended whatever the text ends with
Terminated_Always(text) == Append(text, NL)
\* command += '\n' unless command.endswith('\n')
Terminated(text) == IF EndsWith(text, NL) THEN text ELSE Append(text, NL)

Issue(p, kind, data) == [ops EXCEPT ![p] = Append(@, [op |-> kind, data |-> data])]

\* the body of send_command(text): res is what it returns; a write or flush
\* that raises is caught and nothing reaches the process
SendWrite(text, res) ==
    IF LiveHandle
    THEN \/ res = "send_ok" /\ ops' = Issue(process, "write", Terminated(text))
         \/ res = "send_raised" /\ ops' = ops
    ELSE res = "send_not_running" /\ ops' = ops

SendCommand(t) ==
    /\ th[t].pc = "c_send"
    /\ \E res \in {"send_ok", "send_raised", "send_not_running"} :
          /\ SendWrite(th[t].cmd, res)
          /\ th' = Return(t, res)
    /\ UNCHANGED <<supervisor, env, outside, config_file, proc, files, now, calls, steady,
                   readers, rd, gs>>

\* ------------------------------------------------------------- stop_server
\* stop_server returns ret to its caller: restart discards the result and
\* goes on to time.sleep(3)
StopReturn(t, ret) ==
    IF th[t].op = "restart" THEN Goto(t, "r_sleep") ELSE Return(t, ret)

\* if not self.process or self.process.poll() is not None
StopBegin(t) ==
    /\ th[t].pc = "p_begin"
    /\ th' = IF ~LiveHandle THEN Goto(t, "p_noop")
             ELSE IF th[t].force THEN Goto(t, "p_term")
             ELSE Goto(t, "p_send")
    /\ UNCHANGED <<supervisor, env, outside, config_file, proc, ops, files, now, calls, steady,
                   readers, rd, gs>>

\* the early return: is_running = False; start_time = None; return True
StopNoop(t) ==
    /\ th[t].pc = "p_noop"
    /\ is_running' = FALSE
    /\ start_time' = NoTime
    /\ th' = StopReturn(t, "stop_noop")
    /\ UNCHANGED <<process, env, outside, config_file, proc, ops, files, now, calls, steady,
                   readers, rd, gs>>

\* self.send_command("stop"); its result is ignored
StopSend(t) ==
    /\ th[t].pc = "p_send"
    /\ \E res \in {"send_ok", "send_raised", "send_not_running"} :
          SendWrite(StopText, res)
    /\ th' = Goto(t, "p_wait")
    /\ UNCHANGED <<supervisor, env, outside, config_file, proc, files, now, calls, steady,
                   readers, rd, gs>>

\* the loop with one more round than range(30) gives
StopWait_ExtraPoll(t) ==
    /\ th[t].pc = "p_wait"
    /\ th' = IF th[t].i < StopPolls + 1 /\ PollIsNone(process)
             THEN [th EXCEPT ![t].i = @ + 1]
             ELSE [th EXCEPT ![t].pc = "p_term", ![t].i = 0]
    /\ UNCHANGED <<supervisor, env, outside, config_file, proc, ops, files, now, calls, steady,
                   readers, rd, gs>>

\* for i in range(30): if poll() is not None: break; time.sleep(1)
StopWait(t) ==
    /\ th[t].pc = "p_wait"
    /\ th' = IF th[t].i < StopPolls /\ PollIsNone(process)
             THEN [th EXCEPT ![t].i = @ + 1]
             ELSE [th EXCEPT ![t].pc = "p_term", ![t].i = 0]
    /\ UNCHANGED <<supervisor, env, outside, config_file, proc, ops, files, now, calls, steady,
                   readers, rd, gs>>

\* a termination request delivered to process p
Signal(p, kind) ==
    /\ ops' = Issue(p, kind, << >>)
    /\ proc' = [proc EXCEPT ![p] = IF @ = "alive" THEN "dying" ELSE @]

\* self.is_running = False; self.start_time = None; return True
StopFinish(t) ==
    /\ is_running' = FALSE
    /\ start_time' = NoTime
    /\ th' = StopReturn(t, "stop_done")

\* except Exception: return False
StopRaised(t) ==
    /\ th' = StopReturn(t, "stop_raised")
    /\ UNCHANGED <<is_running, start_time, proc, ops>>

\* if self.process.poll() is None: terminate() on Windows, kill() elsewhere;
\* the forced stop then sleeps 2 seconds, the graceful one is done
StopTerm(t) ==
    /\ th[t].pc = "p_term"
    /\ IF PollIsNone(process)
       THEN \E raised \in BOOLEAN :
               IF raised THEN StopRaised(t)
               ELSE /\ Signal(process, IF is_windows THEN "terminate" ELSE "kill")
                    /\ IF th[t].force
                       THEN th' = Goto(t, "p_grace") /\ UNCHANGED <<is_running, start_time>>
                       ELSE StopFinish(t)
       ELSE StopFinish(t) /\ UNCHANGED <<proc, ops>>
    /\ UNCHANGED <<process, env, outside, config_file, files, now, calls, steady,
                   readers, rd, gs>>

\* after time.sleep(2): if poll() is None, taskkill /F on Windows, kill()
\* elsewhere
StopGrace(t) ==
    /\ th[t].pc = "p_grace"
    /\ IF PollIsNone(process)
       THEN \E raised \in BOOLEAN :
               IF raised THEN StopRaised(t)
               ELSE /\ Signal(process, IF is_windows THEN "taskkill" ELSE "kill")
                    /\ StopFinish(t)
       ELSE StopFinish(t) /\ UNCHANGED <<proc, ops>>
    /\ UNCHANGED <<process, env, outside, config_file, files, now, calls, steady,
                   readers, rd, gs>>

\* ---------------------------------------------------------- restart_server
\* if self.server.is_running: self.server.stop_server(); time.sleep(3)
RestartBegin(t) ==
    /\ th[t].pc = "r_begin"
    /\ th' = IF is_running THEN Goto(t, "p_begin") ELSE Goto(t, "s_check")
    /\ UNCHANGED <<supervisor, env, outside, config_file, proc, ops, files, now, calls, steady,
                   readers, rd, gs>>

\* time.sleep(3) is over: self.server.start_server()
RestartSleep(t) ==
    /\ th[t].pc = "r_sleep"
    /\ th' = Goto(t, "s_check")
    /\ UNCHANGED <<supervisor, env, outside, config_file, proc, ops, files, now, calls, steady,
                   readers, rd, gs>>

\* -------------------------------------------------------------- get_status
\* the uptime computed whatever the liveness flag says
get_uptime_Unguarded == IF start_time # NoTime THEN now - start_time ELSE NoTime
\* get_uptime: datetime.now() - self.start_time, or None
get_uptime == IF is_running /\ start_time # NoTime THEN now - start_time ELSE NoTime

\* status["uptime"] = str(uptime).split('.')[0]: the delta in whole seconds,
\* NoTime when the key is not set
ReportedUptime == get_uptime

get_status == [running |-> is_running, pid |-> process, uptime |-> ReportedUptime]

\* update_status, run by the GUI timer every 2 seconds, or any other caller:
\* get_status builds its dict from the fields and assigns none
Status ==
    /\ status' = get_status
    /\ UNCHANGED <<supervisor, env, settings, config_file, proc, ops, files,
                   now, th, calls, readers, rd, gs, steady, boot, jar_path, url,
                   backups>>

\* ---------------------------------------------------------- the environment
\* a process ends: on its own, after the stop command, or after a signal
ProcExit(p) ==
    /\ proc[p] \in {"alive", "dying"}
    /\ proc' = [proc EXCEPT ![p] = "exited"]
    /\ steady' = FALSE
    /\ UNCHANGED <<supervisor, env, outside, config_file, ops, files, now, th, calls,
                   readers, rd, gs>>

\* read_output: while is_running and process and process.poll() is None it
\* forwards a line; the loop ends when the condition fails
ReaderExit ==
    /\ readers > 0
    /\ ~(is_running /\ LiveHandle)
    /\ readers' = readers - 1
    /\ UNCHANGED <<supervisor, env, outside, config_file, proc, ops, files, now, th,
                   calls, steady, rd, gs>>

Tick ==
    /\ now < MaxClock
    /\ now' = now + 1
    /\ UNCHANGED <<supervisor, env, outside, config_file, proc, ops, files, th, calls, steady,
                   readers, rd, gs>>

ThreadStep(t) ==
    \/ StartCheck(t) \/ StartEula(t) \/ StartProps(t) \/ StartSpawn(t)
    \/ SendCommand(t)
    \/ StopBegin(t) \/ StopNoop(t) \/ StopSend(t) \/ StopWait(t)
    \/ StopTerm(t) \/ StopGrace(t)
    \/ RestartBegin(t) \/ RestartSleep(t)

\* the program at one instant of the clock, its status not polled
Next ==
    \/ \E t \in Threads : Invoke(t)
    \/ \E t \in Threads : ThreadStep(t)
    \/ ReaderExit
    \/ \E p \in Pids : ProcExit(p)

Spec == Init /\ [][Next]_vars

\* the program with the clock advancing
TimedNext == Next \/ Tick

TimedSpec == Init /\ [][TimedNext]_vars

\* the program with the GUI timer polling the status
PolledNext == Next \/ Status

\* the polled program with the clock advancing
PolledSpec == Init /\ [][PolledNext \/ Tick]_vars

\* Every thread that was started keeps running, a process that received a
\* kill ends, and the GUI timer keeps polling the status; nobody is obliged
\* to issue a call.
FairSpec ==
    /\ Init /\ [][PolledNext]_vars
    /\ \A t \in Threads : WF_vars(ThreadStep(t))
    /\ \A p \in Pids : WF_vars(proc[p] = "dying" /\ ProcExit(p))
    /\ WF_vars(ReaderExit)
    /\ WF_vars(Status)

\* ------------------------------------------------------ read_server_output
\* the state a reader thread leaves alone
ReaderFrame ==
    UNCHANGED <<supervisor, env, outside, config_file, proc, ops, files, now,
                th, calls, steady, readers, gs>>

\* read_output, the tests before a readline: "if self.server.process" when
\* the thread begins, then the condition of the while loop; the readline
\* that follows is on the stdout of the process the handle names then
ReaderTest(r) ==
    /\ rd[r].pc \in {"begin", "test"}
    /\ rd' = [rd EXCEPT ![r] =
                IF process # NoProcess /\ is_running /\ PollIsNone(process)
                THEN [pc |-> "read", p |-> process, got |-> "none"]
                ELSE [pc |-> "done", p |-> NoProcess, got |-> "none"]]
    /\ ReaderFrame

\* line = stdout.readline(): a line while the process runs, the empty
\* string once it has exited; a line is handed to the console; an
\* exception ends the loop (except: break)
ReaderRead(r) ==
    /\ rd[r].pc = "read"
    /\ \E got \in {"line", "eof", "raised"} :
          /\ got = "line" => proc[rd[r].p] \in {"alive", "dying"}
          /\ got = "eof" => proc[rd[r].p] = "exited"
          /\ rd' = [rd EXCEPT ![r] =
                      IF got = "raised"
                      THEN [pc |-> "done", p |-> NoProcess, got |-> got]
                      ELSE [pc |-> "test", p |-> rd[r].p, got |-> got]]
    /\ ReaderFrame

\* a supervisor whose start can succeed
ReaderInit == Init /\ javaEnv = "path" /\ IsFile(JarPath) /\ check_eula

\* the callers, the processes and the reader threads
ReaderNext ==
    \/ \E t \in Threads : Invoke(t) \/ ThreadStep(t)
    \/ \E p \in Pids : ProcExit(p)
    \/ \E r \in Pids : ReaderTest(r) \/ ReaderRead(r)

ReaderSpec == ReaderInit /\ [][ReaderNext]_vars

\* Every thread that was started keeps running, the readers included: a
\* readline returns when the process writes or exits; a process that
\* received a kill ends.
FairReaderSpec ==
    /\ ReaderSpec
    /\ \A t \in Threads : WF_vars(ThreadStep(t))
    /\ \A p \in Pids : WF_vars(proc[p] = "dying" /\ ProcExit(p))
    /\ \A r \in Pids : WF_vars(ReaderTest(r) \/ ReaderRead(r))


\* ------------------------------------- get_status, one attribute read a step
\* what a get_status call leaves alone: every field of the object
SnapshotFrame ==
    UNCHANGED <<supervisor, env, settings, config_file, proc, ops, files, now,
                th, calls, steady, readers, rd, boot, jar_path, url, backups>>

\* "running": self.is_running, then
\* "pid": self.process.pid if self.process else None, which reads the handle
\* for the test and again for .pid
StatusFields ==
    /\ gs.pc \in {"idle", "ret", "raised", "pid_test", "pid_use"}
    /\ gs' = CASE gs.pc \in {"idle", "ret", "raised"} ->
                    [NoSnapshot EXCEPT !.pc = "pid_test", !.running = is_running]
               [] gs.pc = "pid_test" ->
                    [gs EXCEPT !.pc = IF process # NoProcess THEN "pid_use" ELSE "flag"]
               [] gs.pc = "pid_use" ->
                    IF process = NoProcess
                    THEN [gs EXCEPT !.pc = "raised"]
                    ELSE [gs EXCEPT !.pc = "flag", !.pid = process]
    /\ UNCHANGED status
    /\ SnapshotFrame

\* get_uptime, called from get_status: self.is_running is read, then
\* self.start_time for the test, then self.start_time again for the
\* subtraction, which raises TypeError on None
StatusUptime ==
    /\ gs.pc \in {"flag", "test", "use"}
    /\ gs' = CASE gs.pc = "flag" ->
                    [gs EXCEPT !.pc = IF is_running THEN "test" ELSE "ready"]
               [] gs.pc = "test" ->
                    [gs EXCEPT !.pc = IF start_time # NoTime THEN "use" ELSE "ready"]
               [] gs.pc = "use" ->
                    IF start_time = NoTime
                    THEN [gs EXCEPT !.pc = "raised"]
                    ELSE [gs EXCEPT !.pc = "ready", !.uptime = now - start_time]
    /\ UNCHANGED status
    /\ SnapshotFrame

\* if uptime: status["uptime"] = ...; status["start_time"] =
\* self.start_time.isoformat() if self.start_time else None, which reads the
\* launch time for the test and again for .isoformat(); return status
StatusReturn ==
    /\ gs.pc \in {"ready", "stamp"}
    /\ IF gs.pc = "ready" /\ gs.uptime # NoTime /\ start_time # NoTime
       THEN gs' = [gs EXCEPT !.pc = "stamp"] /\ UNCHANGED status
       ELSE IF gs.pc = "stamp" /\ start_time = NoTime
            THEN gs' = [gs EXCEPT !.pc = "raised"] /\ UNCHANGED status
            ELSE /\ gs' = [gs EXCEPT !.pc = "ret"]
                 /\ status' = [running |-> gs.running, pid |-> gs.pid,
                               uptime |-> gs.uptime]
    /\ SnapshotFrame

\* the program with a status caller running beside start and stop
SnapshotNext == Next \/ StatusFields \/ StatusUptime \/ StatusReturn

SnapshotSpec == ReaderInit /\ [][SnapshotNext]_vars

\* ------------------------------------------------------- the profile store
\* the regular files of directory dir that detect_server_core may adopt:
\* file.name.endswith('.jar') and 'installer' not in file.name.lower()
JarFiles(dir) ==
    {q \in DOMAIN files :
        /\ Len(q) = Len(dir) + 1
        /\ SubSeq(q, 1, Len(dir)) = dir
        /\ HasSuffix(Chars(q[Len(q)]), DotJar)
        /\ ~Contains(Lower(Chars(q[Len(q)])), K_installer)}

\* detect_server_core on the fields p, found being the first jar iterdir()
\* yields ("" when it yields none)
detect_server_core(p, found) ==
    LET jar == IF p.server_jar = "" THEN found ELSE p.server_jar
        path == Join(p.server_dir, jar)
    IN  IF jar = "" THEN p
        ELSE [p EXCEPT
                !.server_jar = jar,
                !.core_type =
                    detect_core_type(Exists(path), Chars(jar),
                                     IF IsFile(path) THEN files[path] ELSE << >>),
                !.minecraft_version = ExtractVersion(Chars(jar), @)]

\* detect_server_core on the fields p iterates a directory that is missing
IterdirRaises(p) == p.server_jar = "" /\ ~Exists(p.server_dir)

\* the fields take the values of p
Assign(p) ==
    /\ server_dir' = p.server_dir
    /\ server_jar' = p.server_jar
    /\ java_opts' = p.java_opts
    /\ core_type' = p.core_type
    /\ minecraft_version' = p.minecraft_version
    /\ mirror_site' = p.mirror_site

\* the state the store's operations leave alone
StoreFrame ==
    UNCHANGED <<supervisor, proc, ops, files, javaEnv, is_windows, now, th,
                calls, readers, rd, gs, steady, status, jar_path, url, backups>>

\* the token counts at which an interrupted write may stop
Cuts(config) == 0..(Len(JsonDump(config)) - 1)

\* UniversalServer(dir): __init__ assigns the fields, load_config reads the
\* record (and writes default_config when there is none), detect_server_core
\* looks at the directory.  iterdir() raises on a directory that does not
\* exist, and then no instance replaces the one in use.
Construct ==
    LET p == load_config(config_file, Fresh)
    IN  IF IterdirRaises(p)
        THEN UNCHANGED vars
        ELSE /\ \E found \in {q[Len(q)] : q \in JarFiles(p.server_dir)} \cup {""} :
                   /\ found = "" => JarFiles(p.server_dir) = {}
                   /\ Assign(detect_server_core(p, found))
             /\ IF config_file.exists
                THEN UNCHANGED config_file
                ELSE \E outcome \in WriteOutcomes, n \in Cuts(default_config) :
                        config_file' = save_config(default_config, outcome, n)
             /\ boot' = "fresh"
             /\ StoreFrame

\* the launch options and the mirrors the settings windows offer
OptsChoices == {DefaultOpts, "-Xmx4096M -Xms1024M"}
MirrorChoices == {"mslmc", "bmclapi", "mc"}

\* save_config() at the end of a settings handler; when the program dies in
\* the write, no instance is left
SaveSettings ==
    \E outcome \in WriteOutcomes, n \in Cuts(SavedConfig'), dies \in BOOLEAN :
        /\ dies => outcome = "truncated"
        /\ config_file' = save_config(SavedConfig', outcome, n)
        /\ boot' = IF dies THEN "down" ELSE "edited"

\* save_settings of the Java settings window
SetJavaOpts ==
    /\ boot # "down"
    /\ \E v \in OptsChoices : java_opts' = v
    /\ UNCHANGED <<server_dir, server_jar, core_type, minecraft_version,
                   mirror_site>>
    /\ StoreFrame
    /\ SaveSettings

\* save_settings of the mirror settings window
SetMirror ==
    /\ boot # "down"
    /\ \E m \in MirrorChoices : mirror_site' = m
    /\ UNCHANGED <<server_dir, server_jar, java_opts, core_type,
                   minecraft_version>>
    /\ StoreFrame
    /\ SaveSettings

\* select_server_dir: the directory the dialog returned is assigned to
\* server_dir, detect_server_core runs on it and save_config writes the
\* record; when iterdir() raises, the handler ends with the directory
\* assigned and nothing saved
select_server_dir ==
    /\ boot # "down"
    /\ StoreFrame
    /\ \E directory \in {RootDir, <<"elsewhere">>} :
          LET p == [Profile EXCEPT !.server_dir = directory]
          IN  IF IterdirRaises(p)
              THEN /\ Assign(p)
                   /\ boot' = "edited"
                   /\ UNCHANGED config_file
              ELSE /\ \E found \in {q[Len(q)] : q \in JarFiles(directory)} \cup {""} :
                         /\ found = "" => JarFiles(directory) = {}
                         /\ Assign(detect_server_core(p, found))
                   /\ SaveSettings

\* a record an earlier session saved
EarlierRecord ==
    JsonDump(ConfigOf([server_dir |-> RootDir, server_jar |-> "paper-1.21.4.jar",
                       java_opts |-> DefaultOpts, core_type |-> "paper",
                       minecraft_version |-> MINECRAFT_VERSIONS[1],
                       mirror_site |-> "bmclapi"], 0))

\* what server_launcher.json may hold when the program starts: nothing, a
\* record of an earlier session, that record cut short, edited by hand (a
\* trailing separator, a null directory, another artifact, pairs removed),
\* or another document
InitialRecords ==
    {NoFile,
     FileOf(EarlierRecord),
     FileOf(<< >>),
     FileOf(SubSeq(EarlierRecord, 1, 4)),
     FileOf([EarlierRecord EXCEPT ![2] = Tok("server_dir", RootDir \o <<"">>)]),
     FileOf([EarlierRecord EXCEPT ![2] = Tok("server_dir", <<"elsewhere">>),
                                  ![3] = Tok("server_jar", "")]),
     FileOf([EarlierRecord EXCEPT ![2] = Tok("server_dir", JsonNull)]),
     FileOf([EarlierRecord EXCEPT ![3] = Tok("server_jar", "server.jar")]),
     FileOf(<<OpenBrace, Tok("mirror_site", "mc"), CloseBrace>>),
     FileOf(<<Tok("[", ""), Tok("]", "")>>)}

\* the directory as the program finds it: a record or none, a jar or none
StoreInit ==
    /\ InitFields
    /\ server_jar = ""
    /\ InitSupervisor
    /\ InitTools
    /\ boot = "down"
    /\ config_file \in InitialRecords
    /\ \E jars \in SUBSET {"server.jar", "paper-1.21.4.jar", "forge-installer.jar"} :
          /\ Cardinality(jars) <= 1
          /\ files = [q \in {Join(RootDir, j) : j \in jars} |->
                         IF q = Join(RootDir, "server.jar")
                         THEN <<ZipMagic, MainClass>> ELSE << >>]
    /\ javaEnv = "path"
    /\ is_windows = FALSE
    /\ now = 0

StoreNext ==
    Construct \/ SetJavaOpts \/ SetMirror \/ select_server_dir \/ Tick

StoreSpec == StoreInit /\ [][StoreNext]_vars

\* ------------------------------------------------- identifying an artifact
\* the words a file name of the model is built around: every keyword of the
\* chain, "server" and "vanilla", and a word of no rule
Words ==
    UNION {FilenameRules[i].keys : i \in 1..Len(FilenameRules)}
        \cup {K_server, K_vanilla, <<"m", "i", "n", "e">>}
\* the file names handed to detect_core_type: a word in one of three letter
\* cases, with or without text before it, and an extension after it that
\* may carry a version
JarNames ==
    LET Prefixes == {<< >>, <<"m", "y", "_">>}
        Suffixes == {DotJar, <<"-">> \o MINECRAFT_VERSIONS[1] \o DotJar,
                     <<"-">> \o MINECRAFT_VERSIONS[42] \o <<".", "J", "A", "R">>}
    IN  {pre \o w \o suf : pre \in Prefixes,
                           w \in UNION {{k, Upper(k), Capitalize(k)} : k \in Words},
                           suf \in Suffixes}
\* the paths handed to detect_core_type.  The file holds nothing, an
\* archive with the server's main class, an archive without it, or bytes
\* that are no archive; a path that does not exist holds nothing.
JarInputs ==
    LET JarContents == {<< >>, <<ZipMagic, MainClass>>,
                        <<ZipMagic, "META-INF/MANIFEST.MF">>, <<"#!/bin/sh">>}
    IN  {j \in [name : JarNames, exists : BOOLEAN, content : JarContents] :
            ~j.exists => j.content = << >>}

\* self.core_type = ServerCoreManager.detect_core_type(jar_path), then the
\* version loop of detect_server_core on the same name
Identify ==
    /\ calls = 0
    /\ core_type' = detect_core_type(jar_path.exists, jar_path.name,
                                     jar_path.content)
    /\ minecraft_version' = ExtractVersion(jar_path.name, minecraft_version)
    /\ calls' = calls + 1
    /\ UNCHANGED <<supervisor, server_dir, server_jar, java_opts, mirror_site,
                   config_file, proc, ops, files, javaEnv, is_windows, now, th,
                   readers, rd, gs, steady, status, boot, url, jar_path, backups>>

\* an instance whose artifact is about to be identified
IdentifyInit ==
    /\ InitFields
    /\ server_jar = ""
    /\ InitSupervisor
    /\ url = NoUrl
    /\ backup_units = << >>
    /\ bk = [b \in BackupThreads |-> NoBackup]
    /\ listbox = << >>
    /\ boot = "fresh"
    /\ config_file = FileOf(JsonDump(default_config))
    /\ files = << >>
    /\ javaEnv = "path"
    /\ is_windows = FALSE
    /\ now = 0
    /\ jar_path \in JarInputs

IdentifySpec == IdentifyInit /\ [][Identify]_vars

\* ------------------------------------------------- resolving a download
\* CORE_TYPES: core type -> its download_pattern, the text cut at the
\* placeholders
CORE_TYPES ==
    "purpur" :> <<"https://api.purpurmc.org/v2/purpur/", "{version}", "/latest/download">> @@
    "paper" :> <<"https://api.papermc.io/v2/projects/paper/versions/", "{version}", "/builds/", "{build}", "/downloads/paper-", "{version}", "-", "{build}", ".jar">> @@
    "spigot" :> <<"https://download.spigotmc.org/spigot/spigot-", "{version}", ".jar">> @@
    "craftbukkit" :> <<"https://download.craftbukkit.org/craftbukkit-", "{version}", ".jar">> @@
    "vanilla" :> <<"https://launcher.mojang.com/v1/objects/", "{hash}", "/server.jar">> @@
    "fabric" :> <<"https://meta.fabricmc.net/v2/versions/loader/", "{version}", "/", "{loader}", "/server/jar">> @@
    "forge" :> <<"https://maven.minecraftforge.net/net/minecraftforge/forge/", "{version}", "/forge-", "{version}", "-installer.jar">> @@
    "neoforge" :> <<"https://maven.neoforged.net/releases/net/neoforged/forge/", "{version}", "/forge-", "{version}", "-installer.jar">> @@
    "catserver" :> <<"https://github.com/Luohuayu/CatServer/releases/download/", "{version}", "/catserver-", "{version}", ".jar">> @@
    "mohist" :> <<"https://mohistmc.com/api/v2/projects/mohist/", "{version}", "/builds/", "{build}", "/downloads/mohist-", "{version}", "-", "{build}", ".jar">>

\* MIRROR_SITES: mirror id -> its patterns, core type -> pattern
MIRROR_SITES ==
    "mslmc" :> (
        "paper" :> <<"https://dl.mslmc.cn">> @@
        "purpur" :> <<"https://dl.mslmc.cn">> @@
        "vanilla" :> <<"https://dl.mslmc.cn">> @@
        "spigot" :> <<"https://dl.mslmc.cn">> @@
        "craftbukkit" :> <<"https://dl.mslmc.cn">>) @@
    "bmclapi" :> (
        "paper" :> <<"https://bmclapi2.bangbang93.com/projects/paper/versions/", "{version}", "/builds/", "{build}", "/downloads/paper-", "{version}", "-", "{build}", ".jar">> @@
        "purpur" :> <<"https://bmclapi2.bangbang93.com/projects/purpur/versions/", "{version}", "/builds/", "{build}", "/downloads/purpur-", "{version}", "-", "{build}", ".jar">> @@
        "vanilla" :> <<"https://bmclapi2.bangbang93.com/version/", "{version}", "/server">> @@
        "fabric" :> <<"https://bmclapi2.bangbang93.com/fabric-meta/v2/versions/loader/", "{version}", "/", "{loader}", "/server/jar">> @@
        "forge" :> <<"https://bmclapi2.bangbang93.com/maven/net/minecraftforge/forge/", "{version}", "/forge-", "{version}", "-installer.jar">>) @@
    "mc" :> [core \in {} |-> << >>]

\* Python's  pattern.replace(placeholder, value)
Replace(pattern, placeholder, value) ==
    [k \in 1..Len(pattern) |->
        IF pattern[k] = placeholder THEN value ELSE pattern[k]]

\* ServerCoreManager.get_download_url(core_type, version, mirror)
get_download_url(core, version, mirror) ==
    IF mirror \in DOMAIN MIRROR_SITES /\ core \in DOMAIN MIRROR_SITES[mirror]
    THEN LET pattern == MIRROR_SITES[mirror][core]
         \* "{build}" in pattern
         IN  IF \E k \in 1..Len(pattern) : pattern[k] = "{build}"
             THEN Replace(Replace(pattern, "{version}", version), "{build}", "latest")
             ELSE Replace(pattern, "{version}", version)
    \* get_core_info gives an empty download_pattern for a type it does not know
    ELSE LET pattern == IF core \in DOMAIN CORE_TYPES THEN CORE_TYPES[core] ELSE << >>
         IN  IF pattern # << >>
             THEN IF core = "vanilla" THEN None
                  ELSE Replace(pattern, "{version}", version)
             ELSE None

\* the core types, versions and mirror ids get_download_url is called with:
\* the choices of the download window, the mirror being the profile's, which
\* the record may have set to any text
ResolveInputs ==
    [core : DOMAIN CORE_TYPES \cup {"unknown"},
     version : {"1.21.4", "1.8.9", "1.7.10"},
     mirror : DOMAIN MIRROR_SITES \cup {"elsewhere"}]

\* start_download of the download window: the address shown is what
\* get_download_url returns for the three choices
Resolve ==
    /\ \E in \in ResolveInputs :
          url' = [core |-> in.core, version |-> in.version, mirror |-> in.mirror,
                  result |-> get_download_url(in.core, in.version, in.mirror)]
    /\ UNCHANGED <<supervisor, env, settings, config_file, proc, ops, files,
                   now, th, calls, readers, rd, gs, steady, status, boot, jar_path,
                   backups>>

ResolveSpec == Init /\ [][Resolve]_vars

\* ------------------------------------------------------------- backups
\* the second of the minute at which the clock of the model reads 0
FirstSecond == 8
Digits == <<"0", "1", "2", "3", "4", "5", "6", "7", "8", "9">>
\* datetime.now().strftime('%Y%m%d_%H%M%S') at clock value t: the day, the
\* hour and the minute do not change while the model runs
strftime(t) ==
    LET sec == FirstSecond + t
    IN  <<Digits[(sec \div 10) + 1], Digits[(sec % 10) + 1]>>
\* f"backup_{...}"
backup_name(t) == <<"backup_20260101_1200">> \o strftime(t)

\* the allow-lists of create_backup, in the order of the loops
backup_files ==
    <<"server.properties", "eula.txt", "ops.json", "whitelist.json",
      "banned-players.json", "usercache.json">>
world_dirs == <<"world", "world_nether", "world_the_end">>

\* the regular files below directory dir, as paths relative to dir's parent
Below(dir) ==
    {SubSeq(q, Len(dir), Len(q)) :
        q \in {q \in DOMAIN files : Len(q) > Len(dir) /\ SubSeq(q, 1, Len(dir)) = dir}}

\* the state the backup thread leaves alone
BackupFrame ==
    UNCHANGED <<supervisor, env, settings, status, boot, jar_path, url,
                config_file, proc, ops, files, now, th, calls, readers, rd, gs, steady,
                listbox>>

\* create_backup on the GUI thread: the name is taken from the clock and
\* the thread is started
create_backup(b) ==
    /\ bk[b].pc = "idle"
    /\ bk' = [bk EXCEPT ![b] = [pc |-> "mkdir", name |-> backup_name(now),
                                 at |-> now, d |-> 1, todo |-> {}]]
    /\ UNCHANGED backup_units
    /\ BackupFrame

\* backup_path.mkdir(exist_ok=True)
BackupMkdir(b) ==
    /\ bk[b].pc = "mkdir"
    /\ backup_units' =
          IF bk[b].name \in DOMAIN backup_units THEN backup_units
          ELSE [n \in {bk[b].name} |->
                   [at |-> bk[b].at, dirs |-> {}, files |-> << >>]]
               @@ backup_units
    /\ bk' = [bk EXCEPT ![b].pc = "files"]
    /\ BackupFrame

\* the loop over backup_files: copy2 of every file that exists; a copy that
\* raises ends the thread in the except branch
BackupFiles(b) ==
    /\ bk[b].pc = "files"
    /\ \E raised \in BOOLEAN :
          IF raised
          THEN /\ bk' = [bk EXCEPT ![b].pc = "failed"]
               /\ UNCHANGED backup_units
          ELSE /\ backup_units' =
                     [backup_units EXCEPT ![bk[b].name].files =
                         [q \in {<<backup_files[i]>> : i \in
                                    {i \in 1..Len(backup_files) :
                                        Exists(server_dir \o <<backup_files[i]>>)}}
                             |-> files[server_dir \o q]] @@ @]
               /\ bk' = [bk EXCEPT ![b].pc = "world"]
    /\ BackupFrame

\* the head of the loop over world_dirs: a directory that does not exist is
\* passed over; a copy of it the unit already holds is removed (rmtree)
BackupWorld(b) ==
    /\ bk[b].pc = "world"
    /\ IF bk[b].d > Len(world_dirs)
       THEN /\ bk' = [bk EXCEPT ![b].pc = "done"]
            /\ UNCHANGED backup_units
       ELSE LET dir == world_dirs[bk[b].d]
            IN  IF Below(Join(server_dir, dir)) = {}
                THEN /\ bk' = [bk EXCEPT ![b].d = @ + 1]
                     /\ UNCHANGED backup_units
                ELSE /\ backup_units' =
                           [backup_units EXCEPT ![bk[b].name] =
                               [@ EXCEPT
                                  !.dirs = @ \ {dir},
                                  !.files = [q \in {q \in DOMAIN @ : q[1] # dir}
                                                |-> @[q]]]]
                     /\ bk' = [bk EXCEPT ![b].pc = "makedirs"]
    /\ BackupFrame

\* shutil.copytree, its os.makedirs(dst): raises when dst exists
BackupMakedirs(b) ==
    /\ bk[b].pc = "makedirs"
    /\ LET dir == world_dirs[bk[b].d]
       IN  IF dir \in backup_units[bk[b].name].dirs
           THEN /\ bk' = [bk EXCEPT ![b].pc = "failed"]
                /\ UNCHANGED backup_units
           ELSE /\ backup_units' =
                      [backup_units EXCEPT ![bk[b].name].dirs = @ \cup {dir}]
                /\ bk' = [bk EXCEPT ![b].pc = "copy",
                                    ![b].todo = Below(Join(server_dir, dir))]
    /\ BackupFrame

\* shutil.copytree, its loop over the entries in the order scandir yields
\* them: a copy into a directory that is gone raises
BackupCopy(b) ==
    /\ bk[b].pc = "copy"
    /\ LET dir == world_dirs[bk[b].d]
       IN  IF bk[b].todo = {}
           THEN /\ bk' = [bk EXCEPT ![b].pc = "world", ![b].d = @ + 1]
                /\ UNCHANGED backup_units
           ELSE IF dir \notin backup_units[bk[b].name].dirs
           THEN /\ bk' = [bk EXCEPT ![b].pc = "failed"]
                /\ UNCHANGED backup_units
           ELSE \E q \in bk[b].todo :
                   /\ backup_units' =
                         [backup_units EXCEPT ![bk[b].name].files =
                             [r \in {q} |-> files[server_dir \o q]] @@ @]
                   /\ bk' = [bk EXCEPT ![b].todo = @ \ {q}]
    /\ BackupFrame

\* Python's  sorted(names, reverse=True), names compared as strings are: at
\* the first place where they differ, by the order of the characters
RECURSIVE SortedReverse(_)
SortedReverse(names) ==
    LET Ord(c) == CHOOSE i \in 0..Len(Digits) :
                     IF \E k \in 1..Len(Digits) : Digits[k] = c
                     THEN i > 0 /\ Digits[i] = c ELSE i = 0
        RECURSIVE LexLess(_, _)
        LexLess(a, b) ==
            IF a = << >> THEN b # << >>
            ELSE IF b = << >> THEN FALSE
            ELSE IF a[1] = b[1] THEN LexLess(Tail(a), Tail(b))
            ELSE Ord(a[1]) < Ord(b[1])
    IN  IF names = {} THEN << >>
        ELSE LET top == CHOOSE n \in names : \A m \in names \ {n} : LexLess(m, n)
             IN  <<top>> \o SortedReverse(names \ {top})

\* manage_backups: the directories of backup_dir, listed
manage_backups ==
    /\ calls < MaxCalls
    /\ calls' = calls + 1
    /\ listbox' = SortedReverse(DOMAIN backup_units)
    /\ UNCHANGED <<supervisor, env, settings, status, boot, jar_path, url,
                   config_file, proc, ops, files, now, th, readers, rd, gs, steady,
                   backup_units, bk>>

\* the server directory when a backup is made: server.properties and a
\* world of two files, one of them in a directory of its own; eula.txt and
\* the nether are there or not
BackupInit ==
    /\ InitFields
    /\ server_jar = ""
    /\ InitSupervisor
    /\ InitTools
    /\ boot = "fresh"
    /\ config_file = FileOf(JsonDump(default_config))
    /\ \E eula \in BOOLEAN, nether \in BOOLEAN :
          files = [q \in {PropsPath, RootDir \o <<"world", "level.dat">>,
                          RootDir \o <<"world", "region", "r.0.0.mca">>}
                      \cup (IF eula THEN {EulaPath} ELSE {})
                      \cup (IF nether
                            THEN {RootDir \o <<"world_nether", "level.dat">>}
                            ELSE {})
                     |-> IF q = EulaPath THEN EulaTrue ELSE <<q[Len(q)]>>]
    /\ javaEnv = "path"
    /\ is_windows = FALSE
    /\ now = 0

\* the operator starts backups and opens the backup window while time passes
BackupNext ==
    \/ \E b \in BackupThreads :
          \/ create_backup(b)
          \/ BackupMkdir(b)
          \/ BackupFiles(b)
          \/ BackupWorld(b)
          \/ BackupMakedirs(b)
          \/ BackupCopy(b)
    \/ manage_backups
    \/ Tick

BackupSpec == BackupInit /\ [][BackupNext]_vars

\* ------------------------------------------------------------------ claims
\* the processes the operating system still runs
LiveProcs == {p \in Pids : proc[p] \in {"alive", "dying"}}
\* no handle, or the process of the handle has terminated
NoLiveProcess == process = NoProcess \/ proc[process] = "exited"
\* the configured artifact is a file of the server directory
ArtifactPresent == IsFile(JarPath)
\* the outcomes with which a call returns True
Succeeded(ret) == ret \in {"start_ok", "stop_noop", "stop_done", "send_ok"}
\* thread t takes a step
Steps(t) == th'[t] # th[t]
\* thread t's own stop_server call returns in this step
StopReturns(t) ==
    /\ th[t].op = "stop"
    /\ th[t].pc \in {"p_noop", "p_term", "p_grace"}
    /\ th'[t].pc = "idle"

\* C1: in every reachable state at most one spawned process is alive (stated
\* for a supervisor whose artifact file exists).
C1_AtMostOneLiveProcess == ArtifactPresent => Cardinality(LiveProcs) <= 1

\* C2: a start that reaches its spawn while the supervisor is Running, with a
\* live process, is rejected: it returns failure, spawns no process and
\* leaves the handle and the launch time as they are (stated for a
\* supervisor whose artifact file exists).
C2_StartRejectedWhileRunning ==
    [][\A t \in Threads :
          (ArtifactPresent /\ th[t].pc = "s_spawn" /\ is_running /\ LiveHandle
             /\ Steps(t))
          => /\ ~Succeeded(th'[t].ret)
             /\ proc' = proc
             /\ process' = process
             /\ start_time' = start_time]_vars

\* C3: when stop_server returns, whatever its path, get_status reports
\* running = false (stated for a supervisor whose artifact file exists).
C3_StopEndsStopped ==
    [][\A t \in Threads :
          (ArtifactPresent /\ StopReturns(t)) => ~(get_status.running)']_vars

\* C4: when stop_server returns, the handle is cleared and get_status reports
\* no process identifier (stated for a supervisor whose artifact file
\* exists).
C4_StopClearsHandle ==
    [][\A t \in Threads :
          (ArtifactPresent /\ StopReturns(t))
          => (process' = NoProcess /\ (get_status.pid)' = NoProcess)]_vars

C6_RunningWithMonotoneUptime ==
    [][(ArtifactPresent /\ steady /\ steady'
          /\ \A t \in Threads : th'[t].ret # "start_spawn_failed")
       => /\ (get_status.running)'
          /\ (get_status.pid)' # NoProcess
          /\ (get_status.uptime)' >= get_status.uptime]_vars

\* C7: with an empty artifact name no start succeeds and no process is
\* spawned; a process is spawned only if the artifact file exists.
C7_NoSpawnWithoutArtifact ==
    /\ server_jar = "" =>
          /\ \A p \in Pids : proc[p] = "unborn"
          /\ \A t \in Threads : th[t].ret # "start_ok"
    /\ (\E p \in Pids : proc[p] # "unborn") => IsFile(JarPath)

\* C8: a start that finds the license marker absent or not affirmative writes
\* a marker containing eula=true and goes on to the next launch step; it
\* returns the license failure only when that write failed, and spawns
\* nothing then; no process is spawned before the marker is affirmative.
C8_LicenseAutoAccepted ==
    [][/\ \A t \in Threads :
            (th[t].pc = "s_eula" /\ Steps(t))
            => /\ (th'[t].ret = "start_eula_failed")
                    = (~check_eula /\ ~check_eula')
               /\ (th'[t].ret # "start_eula_failed") => th'[t].pc = "s_props"
               /\ (~check_eula /\ th'[t].ret # "start_eula_failed")
                    => /\ EulaPath \in DOMAIN files'
                       /\ Contains(files'[EulaPath], EulaTrue)
               /\ check_eula => files' = files
               /\ proc' = proc
       /\ (proc' # proc /\ \E p \in Pids : proc[p] = "unborn" /\ proc'[p] = "alive")
            => check_eula]_vars

\* C8 witness: a process runs whose marker is the one start_server wrote.
C8_Witness ==
    /\ \E p \in Pids : proc[p] = "alive"
    /\ IsFile(EulaPath) /\ files[EulaPath] = EulaTemplate

\* C9: send_command without a live handle returns the not-running failure
\* and writes nothing; with a live handle, unless the write itself raises, it
\* writes to that process the text, followed by one newline exactly when the
\* text does not end with one.
C9_SendCommand ==
    [][\A t \in Threads :
          (th[t].pc = "c_send" /\ Steps(t))
          => LET text == th[t].cmd
                 ret == th'[t].ret
             IN  IF NoLiveProcess
                 THEN ret = "send_not_running" /\ ops' = ops
                 ELSE \/ ret = "send_raised" /\ ops' = ops
                      \/ /\ ret = "send_ok"
                         /\ \A q \in Pids \ {process} : ops'[q] = ops[q]
                         /\ Len(ops'[process]) = Len(ops[process]) + 1
                         /\ SubSeq(ops'[process], 1, Len(ops[process])) = ops[process]
                         /\ LET w == ops'[process][Len(ops'[process])]
                            IN  /\ w.op = "write"
                                /\ EndsWith(w.data, NL)
                                /\ EndsWith(text, NL) => w.data = text
                                /\ ~EndsWith(text, NL) => w.data = text \o <<NL>>]_vars

\* C9 witness: a send_command returned success after a text without a
\* newline was written with one appended.
C9_Witness ==
    \E t \in Threads, p \in Pids :
        /\ th[t].op = "send" /\ th[t].ret = "send_ok"
        /\ \E k \in 1..Len(ops[p]) : ops[p][k] = [op |-> "write", data |-> <<"l", NL>>]

\* C10: once the supervised process has exited while the supervisor is
\* Running, get_status eventually reports running = false (stated for a
\* supervisor whose artifact file exists).
C10_ExitIsDetected ==
    (ArtifactPresent /\ process # NoProcess /\ proc[process] = "exited"
       /\ get_status.running)
        ~> ~get_status.running

\* C11: a get_status call (the step that replaces the snapshot) leaves the
\* liveness flag, the handle, the launch time, every profile field, the
\* persisted record and every file as they were, sends nothing to a process,
\* and the snapshot it returns carries an uptime only if the liveness flag is
\* set.
C11_StatusIsPureRead ==
    [][status' # status
       => /\ UNCHANGED <<is_running, process, start_time>>
          /\ UNCHANGED <<server_dir, server_jar, java_opts, core_type,
                         minecraft_version, mirror_site>>
          /\ UNCHANGED <<config_file, files, proc, ops>>
          /\ status'.running = is_running
          /\ status'.pid = process
          /\ (status'.uptime # NoTime) => is_running
          /\ is_running => status'.uptime = now - start_time]_vars

\* C11 witness: after a start at time 0 and a stop, the snapshot taken at a
\* later time reports not running and no uptime, and a process had run.
C11_Witness ==
    /\ status = [running |-> FALSE, pid |-> process, uptime |-> NoTime]
    /\ process # NoProcess
    /\ now > 0
    /\ \E t \in Threads : th[t].ret = "stop_done"
    /\ start_time = NoTime

\* a step of Construct that built an instance
Constructed == boot' = "fresh" /\ now' = now

\* C12: a save never leaves the persisted record truncated or partly
\* written: whenever a step changes a server_launcher.json that held a
\* complete record, interrupted or not, the file afterwards holds the
\* complete record being saved (and when it does not change, the complete
\* previous one).
C12_SaveIsAtomic ==
    [][(config_file.exists /\ IsJson(config_file.text)
          /\ config_file' # config_file)
       => config_file' \in {FileOf(JsonDump(SavedConfig')),
                            FileOf(JsonDump(default_config))}]_vars

\* load_config on the record f, the fields saved again with the time stamp
Resave(f, stamp) == FileOf(JsonDump(ConfigOf(load_config(f, Fresh), stamp)))

\* C13: whenever save_config() has written its whole record, load_config on
\* that file yields the saved server_dir, server_jar, java_opts, core_type,
\* minecraft_version and mirror_site; and for the file of any reachable
\* state, loading and saving twice gives the record that loading and saving
\* once gives, the time stamp aside.
C13_RoundTrip ==
    /\ [](\A s1, s2 \in 0..MaxClock :
            Resave(Resave(config_file, s1), s2) = Resave(config_file, s2))
    /\ [][(config_file' # config_file
             /\ config_file' = FileOf(JsonDump(SavedConfig')))
          => load_config(config_file', Fresh) = Profile']_vars

\* C13 witness: an instance was constructed on the record a settings handler
\* of an earlier instance saved, and holds the launch options saved then.
C13_Witness ==
    /\ boot = "fresh"
    /\ java_opts \in OptsChoices \ {DefaultOpts}
    /\ mirror_site = "bmclapi"
    /\ \E stamp \in 0..now : config_file = FileOf(JsonDump(ConfigOf(Profile, stamp)))

\* a record on which reading fails: no complete JSON document, a document
\* that is no object, or an object whose server_dir is no string
Malformed(f) ==
    /\ f.exists
    /\ \/ ~IsJson(f.text)
       \/ f.text[1].k # "{"
       \/ Get(f.text, "server_dir", << >>) = JsonNull

\* C14: on a malformed record load_config yields the default profile, no
\* field taken from the record, and the construction does not fail; the
\* instance constructed on it has the default launch options, mirror and
\* directory and leaves the record alone.  On a directory without a record
\* the instance has the defaults too, and the record written, if the write
\* succeeds, is default_config.
C14_MalformedLoadDefaults ==
    /\ [](Malformed(config_file)
            => /\ load_config(config_file, Fresh) = Fresh
               /\ ~IterdirRaises(load_config(config_file, Fresh)))
    /\ [][((Malformed(config_file) \/ ~config_file.exists) /\ Constructed)
          => /\ server_dir' = RootDir
             /\ java_opts' = DefaultOpts
             /\ mirror_site' = "mslmc"
             /\ JarFiles(RootDir) = {}
                  => (server_jar' = "" /\ core_type' = "unknown"
                      /\ minecraft_version' = << >>)
             /\ config_file.exists => config_file' = config_file
             /\ (config_file'.exists /\ IsJson(config_file'.text) /\ ~config_file.exists)
                  => config_file' = FileOf(JsonDump(
                        << Tok("server_dir", RootDir), Tok("server_jar", ""),
                           Tok("java_opts", "-Xmx2048M -Xms2048M"),
                           Tok("core_type", "unknown"),
                           Tok("minecraft_version", << >>),
                           Tok("auto_backup", TRUE),
                           Tok("backup_interval", 3600),
                           Tok("max_backups", 10),
                           Tok("mirror_site", "mslmc") >>))]_vars

\* C14 witness: an instance was constructed on a record whose server_dir is
\* null and whose other pairs name a jar and a mirror: it holds the defaults.
C14_Witness ==
    /\ boot = "fresh"
    /\ Malformed(config_file)
    /\ Get(config_file.text, "server_jar", "") = "paper-1.21.4.jar"
    /\ Profile = Fresh

\* the vendors of CORE_TYPES and the keyword each is known by
VendorKeywords ==
    << [tag |-> "purpur", key |-> <<"p", "u", "r", "p", "u", "r">>],
       [tag |-> "paper", key |-> <<"p", "a", "p", "e", "r">>],
       [tag |-> "spigot", key |-> <<"s", "p", "i", "g", "o", "t">>],
       [tag |-> "craftbukkit", key |-> <<"c", "r", "a", "f", "t", "b", "u", "k", "k", "i", "t">>],
       [tag |-> "fabric", key |-> <<"f", "a", "b", "r", "i", "c">>],
       [tag |-> "forge", key |-> <<"f", "o", "r", "g", "e">>],
       [tag |-> "neoforge", key |-> <<"n", "e", "o", "f", "o", "r", "g", "e">>],
       [tag |-> "mohist", key |-> <<"m", "o", "h", "i", "s", "t">>],
       [tag |-> "catserver", key |-> <<"c", "a", "t", "s", "e", "r", "v", "e", "r">>] >>

\* the vendors a file name names: those whose keyword occurs in it, in any
\* letter case, and not merely as a part of another vendor's keyword that
\* occurs in it (the "forge" of "neoforge")
NamedVendors(name) ==
    LET occurs == {i \in 1..Len(VendorKeywords) :
                      Contains(Lower(name), VendorKeywords[i].key)}
    IN  {VendorKeywords[i].tag :
            i \in {i \in occurs :
                      ~\E j \in occurs \ {i} :
                          Contains(VendorKeywords[j].key, VendorKeywords[i].key)}}

\* the artifact has been identified
Identified == calls > 0

\* C15: for every existing artifact whose name contains a vendor keyword
\* (purpur, paper, spigot, craftbukkit, fabric, forge, neoforge, mohist,
\* catserver), in any letter case and with any text around it, the core
\* type identification returns is that vendor's tag; for purpur-1.21.4.jar
\* the version extracted is 1.21.4.
C15_KeywordGivesTag ==
    (Identified /\ jar_path.exists) =>
        /\ \A tag \in NamedVendors(jar_path.name) : core_type = tag
        /\ Contains(jar_path.name, MINECRAFT_VERSIONS[1])
              => minecraft_version = MINECRAFT_VERSIONS[1]

\* C16: identification of a path that does not exist returns unknown, also
\* when the name holds a vendor keyword; for an existing file on whose name
\* no rule decides, a file that cannot be opened as an archive yields
\* unknown as well, the error swallowed.
C16_MissingOrUnreadableIsUnknown ==
    Identified =>
        /\ ~jar_path.exists => core_type = "unknown"
        /\ (/\ jar_path.exists
            /\ NamedVendors(jar_path.name) = {}
            /\ Inspect(jar_path.content) = "raised") => core_type = "unknown"

\* identified: a path that does not exist and is named after a vendor
C16_Witness ==
    /\ Identified
    /\ ~jar_path.exists
    /\ "paper" \in NamedVendors(jar_path.name)
    /\ core_type = "unknown"

\* identified: an existing server.jar that is no archive
C16_WitnessUnreadable ==
    /\ Identified
    /\ jar_path.exists
    /\ jar_path.name = K_server \o DotJar
    /\ Inspect(jar_path.content) = "raised"
    /\ core_type = "unknown"

\* C17: for the core type vanilla the resolver gives no address, whatever
\* the version and whatever the mirror id: mslmc, bmclapi, mc or an id that
\* is no mirror.
C17_VanillaUnresolvable ==
    url.core = "vanilla" => url.result = None

\* backup thread b ends its create with the success message
Completes(b) == bk[b].pc # "done" /\ bk'[b].pc = "done"

\* unit holds a copy of every allow-listed file the server directory has,
\* nothing for those it lacks, and every file of every world directory
HoldsCopies(unit) ==
    /\ \A i \in 1..Len(backup_files) :
          LET rel == <<backup_files[i]>>
          IN  IF IsFile(server_dir \o rel)
              THEN rel \in DOMAIN unit.files /\ unit.files[rel] = files[server_dir \o rel]
              ELSE rel \notin DOMAIN unit.files
    /\ \A d \in 1..Len(world_dirs) :
          \A rel \in Below(Join(server_dir, world_dirs[d])) :
              rel \in DOMAIN unit.files /\ unit.files[rel] = files[server_dir \o rel]

\* the names of listing are in reverse-chronological order, every unit a
\* completed create made is among them, and the unit of the create begun
\* last, once completed, comes first
ListedNewestFirst(listing) ==
    /\ \A i, j \in 1..Len(listing) :
          i < j => backup_units[listing[i]].at > backup_units[listing[j]].at
    /\ \A b \in BackupThreads :
          bk[b].pc = "done" =>
              /\ \E i \in 1..Len(listing) : listing[i] = bk[b].name
              /\ (\A c \in BackupThreads : bk[c].at <= bk[b].at)
                    => listing[1] = bk[b].name

\* C18: a create on a directory with server.properties and world/ that
\* completes leaves a unit holding a copy of server.properties and of every
\* file of world/, the allow-listed files that do not exist passed over; a
\* list made after a create has completed gives the names in
\* reverse-chronological order, the new unit first.
C18_CreateCopiesAndListsNewestFirst ==
    /\ [][\A b \in BackupThreads :
             Completes(b) =>
                 /\ bk[b].name \in DOMAIN backup_units'
                 /\ HoldsCopies(backup_units'[bk[b].name])]_vars
    /\ [][calls' # calls => ListedNewestFirst(listbox')]_vars

\* C19: a graceful stop that finds a live process goes to the write before
\* any poll of its loop; the write, unless it raises, puts the line stop on
\* the input stream of the process; the loop polls at most 30 times, one
\* second of sleep after each poll that found the process alive, and sends
\* nothing; and when the poll after the loop finds the process exited, the
\* stop returns success with the liveness flag cleared and no termination
\* or kill request issued.
C19_GracefulStop ==
    /\ [](\A t \in Threads : th[t].i <= 30)
    /\ [][\A t \in Threads :
             (~th[t].force /\ Steps(t)) =>
               /\ (th[t].pc = "p_begin" /\ LiveHandle)
                    => (th'[t].pc = "p_send" /\ ops' = ops /\ proc' = proc)
               /\ th[t].pc = "p_send"
                    => /\ th'[t].pc = "p_wait" /\ th'[t].i = 0
                       /\ proc' = proc
                       /\ \/ ops' = ops
                          \/ /\ LiveHandle
                             /\ ops' = [ops EXCEPT ![process] =
                                           Append(@, [op |-> "write",
                                                      data |-> <<"s", "t", "o", "p", "\n">>])]
               /\ th[t].pc = "p_wait"
                    => /\ ops' = ops /\ proc' = proc
                       /\ \/ /\ th'[t].pc = "p_wait"
                             /\ th'[t].i = th[t].i + 1
                             /\ PollIsNone(process)
                          \/ th'[t].pc = "p_term"
               /\ (th[t].pc = "p_term" /\ ~PollIsNone(process))
                    => /\ ops' = ops /\ proc' = proc
                       /\ ~is_running' /\ start_time' = NoTime
                       /\ th' = StopReturn(t, "stop_done")]_vars

\* C19 witness: a stop has returned success on a process that exited and
\* that was sent the line stop and nothing else.
C19_Witness ==
    \E t \in Threads :
        /\ th[t].op = "stop" /\ th[t].ret = "stop_done"
        /\ process # NoProcess /\ proc[process] = "exited"
        /\ ops[process] = <<[op |-> "write", data |-> <<"s", "t", "o", "p", "\n">>]>>
        /\ ~is_running

\* C20: a graceful stop whose process is still alive after the 30 polls
\* issues a polite termination request and then waits out the grace period
\* before it returns; the unconditional kill comes only after that wait,
\* and only if the process is still alive.
C20_EscalationOrder ==
    [][\A t \in Threads :
          (~th[t].force /\ th[t].pc = "p_term" /\ PollIsNone(process)
             /\ Steps(t) /\ ops' # ops)
          => /\ ops'[process][Len(ops'[process])].op = "terminate"
             /\ th'[t].pc = "p_grace"]_vars

\* the request a step has just sent to the supervised process
LastRequest == ops'[process][Len(ops'[process])].op

\* C21: a forced stop that finds a live process goes past the write and the
\* poll loop: it writes nothing to the input stream and never polls in the
\* loop; it requests termination, waits out the grace period and then, if
\* the process is still alive, terminates it unconditionally (taskkill /F
\* by process identifier on Windows, kill elsewhere); it returns success
\* with the liveness flag cleared.
C21_ForcedStop ==
    [][\A t \in Threads :
          (th[t].force /\ Steps(t)) =>
            /\ th'[t].pc \notin {"p_send", "p_wait"}
            /\ th'[t].i = 0
            /\ ops' # ops => LastRequest # "write"
            /\ (th[t].pc = "p_begin" /\ LiveHandle)
                 => (th'[t].pc = "p_term" /\ ops' = ops /\ proc' = proc)
            /\ (th[t].pc = "p_term" /\ PollIsNone(process))
                 => /\ th'[t].pc = "p_grace"
                    /\ ops' # ops
                    /\ LastRequest = IF is_windows THEN "terminate" ELSE "kill"
            /\ th[t].pc = "p_grace"
                 => /\ th'[t].pc = "idle" /\ th'[t].ret = "stop_done"
                    /\ ~is_running'
                    /\ IF PollIsNone(process)
                       THEN /\ ops' # ops
                            /\ LastRequest = IF is_windows THEN "taskkill" ELSE "kill"
                       ELSE ops' = ops]_vars

\* thread t's start_server call ends in this step, and not with success
StartFails(t) ==
    /\ th[t].pc \in {"s_check", "s_eula", "s_props", "s_spawn"}
    /\ th'[t].pc = "idle"
    /\ th'[t].ret # "start_ok"

\* C22: a start that fails returns one of the failures (no runtime, no
\* artifact, license not acceptable, properties file not creatable, spawn
\* failed) and does not leave as an exception; it records no handle and no
\* process, and a supervisor that was Stopped stays Stopped; the missing
\* runtime is reported only when the version probe fails and no fallback
\* path exists.
C22_FailedStartStaysStopped ==
    [][\A t \in Threads :
          StartFails(t) =>
            /\ th'[t].ret \in {"start_no_java", "start_no_jar", "start_eula_failed",
                               "start_props_failed", "start_spawn_failed"}
            /\ process' = process /\ proc' = proc /\ start_time' = start_time
            /\ ~is_running => ~is_running'
            /\ th'[t].ret = "start_no_java" => javaEnv = "none"]_vars

\* reader r is in its loop
Draining(r) == rd[r].pc \in {"begin", "test", "read"}

\* C23: the reader started for a process begins a readline only after it
\* found the supervisor Running and the process alive, and hands on only
\* lines such a readline gave; a readline that raises ends the loop as an
\* ordinary end of the thread; and once the process the reader was started
\* for has exited, or the supervisor is not Running, the reader eventually
\* leaves its loop.
C23_ReaderStops ==
    /\ [][\A r \in Pids :
             /\ (rd'[r].pc = "read" /\ rd[r].pc # "read")
                  => (is_running /\ LiveHandle /\ rd'[r].p = process)
             /\ (rd'[r].got = "line" /\ rd'[r] # rd[r])
                  => (rd[r].pc = "read" /\ rd'[r].pc = "test")
             /\ (rd'[r].got = "raised" /\ rd'[r] # rd[r])
                  => rd'[r].pc = "done"]_vars
    /\ \A r \in Pids :
          (Draining(r) /\ (proc[r] = "exited" \/ ~is_running))
              ~> ~Draining(r)

\* C24: a get_status call running beside start_server or stop_server on
\* another thread never raises, and the dict it returns is one the object
\* could have given at a single instant: running is reported exactly when an
\* uptime is, and a running snapshot names a process.
C24_SnapshotWhole ==
    /\ gs.pc # "raised"
    /\ gs.pc = "ret" =>
          /\ gs.running <=> (gs.uptime # NoTime)
          /\ gs.running => gs.pid # NoProcess

\* the catalogue entries that occur in the lower-cased file name
Occurring(name) ==
    {i \in 1..Len(MINECRAFT_VERSIONS) :
        Contains(Lower(Chars(name)), MINECRAFT_VERSIONS[i])}

\* C25: after the constructor's detection ran on an artifact, the game
\* version is the first catalogue entry occurring in the artifact's file
\* name, and empty when none occurs, whatever version the loaded record held.
C25_VersionFromFilename ==
    [][(Constructed /\ server_jar' # "")
       => IF Occurring(server_jar') = {}
          THEN minecraft_version' = << >>
          ELSE \E i \in Occurring(server_jar') :
                  /\ \A j \in Occurring(server_jar') : i <= j
                  /\ minecraft_version' = MINECRAFT_VERSIONS[i]]_vars

\* the create call of thread b has ended, with or without an error
Ended(b) == bk[b].pc \in {"done", "failed"}

\* C26: each create call has a unit of its own, and once a create call has
\* ended no step changes the unit it made: no directory or file of it is
\* added, removed or replaced by another create call, whether started in
\* the same second or running beside it.
C26_UnitsImmutable ==
    /\ [](\A b, c \in BackupThreads :
            (b # c /\ bk[b].pc # "idle" /\ bk[c].pc # "idle")
                => bk[b].name # bk[c].name)
    /\ [][\A b \in BackupThreads :
             (Ended(b) /\ bk[b].name \in DOMAIN backup_units)
                 => /\ bk[b].name \in DOMAIN backup_units'
                    /\ backup_units'[bk[b].name] = backup_units[bk[b].name]]_vars

\* pattern with {version} replaced by version and {build} by latest, no
\* build hint being given
Substituted(pattern, version) ==
    [k \in 1..Len(pattern) |->
        CASE pattern[k] = "{version}" -> version
          [] pattern[k] = "{build}" -> "latest"
          [] OTHER -> pattern[k]]

\* C27: for a core type other than vanilla, the address resolved is the
\* chosen mirror's template for the core type when the mirror registers
\* one, otherwise the core type's default template, in both cases with
\* {version} replaced by the version and {build} by latest; and it is no
\* address when neither template exists.
C27_LookupOrder ==
    (url # NoUrl /\ url.core # "vanilla") =>
        url.result =
            IF url.mirror \in DOMAIN MIRROR_SITES
                  /\ url.core \in DOMAIN MIRROR_SITES[url.mirror]
            THEN Substituted(MIRROR_SITES[url.mirror][url.core], url.version)
            ELSE IF url.core \in DOMAIN CORE_TYPES
                 THEN Substituted(CORE_TYPES[url.core], url.version)
                 ELSE None

\* C28: when a stop that went through its termination branch returns
\* success and leaves the supervisor Stopped, the process of the handle has
\* exited: it is not alive, and not still alive with a kill request pending.
C28_StoppedMeansExited ==
    [][\A t \in Threads :
          (StopReturns(t) /\ th'[t].ret = "stop_done" /\ ~is_running')
             => (process' # NoProcess /\ proc'[process'] = "exited")]_vars

\* C29: no two readers are in a readline on the stdout of the same process,
\* and the reader started for a process is in a readline on the stdout of
\* that process only, never on that of a process spawned later.
C29_OneReaderPerProcess ==
    /\ \A p \in Pids :
          Cardinality({r \in Pids : rd[r].pc = "read" /\ rd[r].p = p}) <= 1
    /\ \A r \in Pids : rd[r].pc = "read" => rd[r].p = r

\* path lies below directory dir
Inside(path, dir) ==
    Len(path) > Len(dir) /\ SubSeq(path, 1, Len(dir)) = dir

\* C30: once the supervisor is constructed, the file it reads and writes its
\* record in and the directory it keeps its backups in lie inside the
\* server directory of the profile, the one the process is launched in.
C30_RecordAndBackupsInRoot ==
    boot # "down" =>
        /\ Inside(config_file_path, server_dir)
        /\ Inside(backup_dir, server_dir)

============================================================================
